---------------------------- MODULE Spec2Model ----------------------------
(***************************************************************************)
(* A model of treetagger3.py: the TreeTagger adapter class.                *)
(*                                                                         *)
(* Text (Python str) is a sequence of code points, raw data (Python bytes) *)
(* is a sequence of byte values 0..255.  A Python value that can be either *)
(* is a record [kind, v, items]: kind is "str", "bytes" or "list", v the    *)
(* code points or bytes of a str or bytes, items the elements of a list.   *)
(* The external tagger binary and nltk's find_binary are the environment.  *)
(***************************************************************************)
EXTENDS Integers, Sequences, FiniteSets, TLC

(***************************************************************************)
(* Bounds of the model.                                                    *)
(***************************************************************************)
\* the longest token list handed to tag()
MaxTokens == 2
\* the longest output an arbitrary (non-echoing) child writes
MaxOut == 3

(***************************************************************************)
(* Python values.                                                          *)
(***************************************************************************)
None == "None"
\* '\n' of lines 131 and 160, '\t' of line 161
NL == 10
TAB == 9

Str(s) == [kind |-> "str", v |-> s, items |-> <<>>]
Bytes(b) == [kind |-> "bytes", v |-> b, items |-> <<>>]
List(l) == [kind |-> "list", v |-> <<>>, items |-> l]
NoValue == [kind |-> "none", v |-> <<>>, items |-> <<>>]

\* all sequences over S of length at most n
RECURSIVE SeqsUpTo(_, _)
SeqsUpTo(S, n) ==
    IF n = 0 THEN {<<>>}
    ELSE LET shorter == SeqsUpTo(S, n - 1)
         IN  shorter \cup {Append(s, x) : s \in shorter, x \in S}

RECURSIVE Concat(_)
Concat(ss) == IF ss = <<>> THEN <<>> ELSE Head(ss) \o Concat(Tail(ss))

(***************************************************************************)
(* str.encode(encoding) and str(bytes, encoding), strict error handling.   *)
(* Both return [ok, v]; ok = FALSE is UnicodeEncodeError/UnicodeDecodeError*)
(***************************************************************************)
IsCont(b) == b >= 128 /\ b <= 191

EncodeUtf8Char(cp) ==
    IF cp < 128 THEN <<cp>>
    ELSE IF cp < 2048 THEN <<192 + (cp \div 64), 128 + (cp % 64)>>
    ELSE IF cp < 65536
         THEN <<224 + (cp \div 4096), 128 + ((cp \div 64) % 64), 128 + (cp % 64)>>
    ELSE <<240 + (cp \div 262144), 128 + ((cp \div 4096) % 64),
           128 + ((cp \div 64) % 64), 128 + (cp % 64)>>

\* surrogates cannot be encoded as utf-8; latin-1 holds code points below 256
Encodable(cp, encoding) ==
    IF encoding = "latin-1" THEN cp < 256
    ELSE ~(cp >= 55296 /\ cp <= 57343)

EncodeChar(cp, encoding) ==
    IF encoding = "latin-1" THEN <<cp>> ELSE EncodeUtf8Char(cp)

Encode(s, encoding) ==
    IF \A i \in 1..Len(s) : Encodable(s[i], encoding)
    THEN [ok |-> TRUE, v |-> Concat([i \in 1..Len(s) |-> EncodeChar(s[i], encoding)])]
    ELSE [ok |-> FALSE, v |-> <<>>]

\* the length of the well-formed utf-8 sequence b starts with, 0 if there is none
Utf8Len(b) ==
    LET n  == Len(b)
        b1 == b[1]
        c(i) == i <= n /\ IsCont(b[i])
    IN  IF b1 < 128 THEN 1
        ELSE IF b1 >= 194 /\ b1 <= 223 THEN (IF c(2) THEN 2 ELSE 0)
        ELSE IF b1 = 224 THEN (IF c(2) /\ b[2] >= 160 /\ c(3) THEN 3 ELSE 0)
        ELSE IF b1 = 237 THEN (IF c(2) /\ b[2] <= 159 /\ c(3) THEN 3 ELSE 0)
        ELSE IF b1 >= 225 /\ b1 <= 239 THEN (IF c(2) /\ c(3) THEN 3 ELSE 0)
        ELSE IF b1 = 240 THEN (IF c(2) /\ b[2] >= 144 /\ c(3) /\ c(4) THEN 4 ELSE 0)
        ELSE IF b1 = 244 THEN (IF c(2) /\ b[2] <= 143 /\ c(3) /\ c(4) THEN 4 ELSE 0)
        ELSE IF b1 >= 241 /\ b1 <= 243 THEN (IF c(2) /\ c(3) /\ c(4) THEN 4 ELSE 0)
        ELSE 0

Utf8CodePoint(b, k) ==
    IF k = 1 THEN b[1]
    ELSE IF k = 2 THEN (b[1] - 192) * 64 + (b[2] - 128)
    ELSE IF k = 3 THEN (b[1] - 224) * 4096 + (b[2] - 128) * 64 + (b[3] - 128)
    ELSE (b[1] - 240) * 262144 + (b[2] - 128) * 4096 + (b[3] - 128) * 64 + (b[4] - 128)

RECURSIVE DecodeUtf8(_)
DecodeUtf8(b) ==
    IF b = <<>> THEN [ok |-> TRUE, v |-> <<>>]
    ELSE LET k == Utf8Len(b)
         IN  IF k = 0 THEN [ok |-> FALSE, v |-> <<>>]
             ELSE LET rest == DecodeUtf8(SubSeq(b, k + 1, Len(b)))
                  IN  IF rest.ok
                      THEN [ok |-> TRUE, v |-> <<Utf8CodePoint(b, k)>> \o rest.v]
                      ELSE rest

\* every byte is a latin-1 code point
Decode(b, encoding) ==
    IF encoding = "latin-1" THEN [ok |-> TRUE, v |-> b] ELSE DecodeUtf8(b)

(***************************************************************************)
(* str.strip(), str.split(sep), str.join.                                  *)
(***************************************************************************)
\* the code points for which str.isspace() holds
PyWhitespace ==
    (9..13) \cup (28..32) \cup {133, 160, 5760} \cup (8192..8202)
        \cup {8232, 8233, 8239, 8287, 12288}

RECURSIVE LStrip(_)
LStrip(s) ==
    IF s # <<>> /\ Head(s) \in PyWhitespace THEN LStrip(Tail(s)) ELSE s

RECURSIVE RStrip(_)
RStrip(s) ==
    IF s # <<>> /\ s[Len(s)] \in PyWhitespace
    THEN RStrip(SubSeq(s, 1, Len(s) - 1)) ELSE s

Strip(s) == RStrip(LStrip(s))

\* s.split(sep) for a one-character sep: never fewer than one piece
RECURSIVE Split(_, _)
Split(s, sep) ==
    IF \A i \in 1..Len(s) : s[i] # sep THEN <<s>>
    ELSE LET i == CHOOSE j \in 1..Len(s) :
                      s[j] = sep /\ \A k \in 1..(j - 1) : s[k] # sep
         IN  <<SubSeq(s, 1, i - 1)>> \o Split(SubSeq(s, i + 1, Len(s)), sep)

\* sep.join(items) on texts
RECURSIVE Join(_, _)
Join(items, sep) ==
    IF items = <<>> THEN <<>>
    ELSE IF Len(items) = 1 THEN items[1]
    ELSE items[1] \o <<sep>> \o Join(Tail(items), sep)


(***************************************************************************)
(* Module-level data.                                                      *)
(***************************************************************************)
_treetagger_languages ==
    [e \in {"latin-1", "utf-8"} |->
        IF e = "latin-1"
        THEN {"latin", "latinIT", "mongolian", "swahili"}
        ELSE {"bulgarian", "dutch", "english", "estonian", "finnish", "french",
              "galician", "german", "italian", "polish", "russian", "slovak",
              "slovak2", "spanish"}]

\* lines 97-100; os.path.expanduser leaves the names distinct
treetagger_paths ==
    {".", "/usr/bin", "/usr/local/bin", "/opt/local/bin", "/Applications/bin",
     "~/bin", "~/Applications/bin", "~/work/TreeTagger/cmd", "~/tree-tagger/cmd"}

\* tUoB3(obj, encoding='utf-8'): [exc, v]
tUoB3(obj, encoding) ==
    IF obj.kind \in {"str", "bytes", "bytearray"}
    THEN IF obj.kind = "str"
         THEN [exc |-> "TypeError", v |-> <<>>]
         ELSE LET d == Decode(obj.v, encoding)
              IN  IF d.ok THEN [exc |-> "", v |-> d.v]
                  ELSE [exc |-> "UnicodeDecodeError", v |-> <<>>]
    ELSE [exc |-> "", v |-> obj.v]

\* the truth value Python gives a string or None
Truthy(x) == x # None /\ x # ""

(***************************************************************************)
(* State.                                                                  *)
(***************************************************************************)
VARIABLES
    binDir,     \* environment: the directory holding the tagger binaries (on
                \* the search path or not), or None
    args,       \* the arguments __init__ was called with
    self,       \* the adapter: its construction state and its attributes
    binName,    \* __init__'s local treetagger_bin_name
    ctorExc,    \* the exception __init__ raised, "" if none
    lookups,    \* the names find_binary was asked for, in order
    th,         \* per calling thread: its position in tag() and tag()'s locals
    procs       \* the child processes of the calls in progress

vars == <<binDir, args, self, binName, ctorExc, lookups, th, procs>>

Unset == "unset"

NoArgs == [language |-> Unset, encoding |-> Unset, abbreviation_list |-> None]

IdleThread ==
    [pc |-> "idle", sentences |-> NoValue, _input |-> NoValue, p |-> 0,
     nspawn |-> 0, stdout |-> NoValue, returncode |-> 0,
     treetagger_output |-> <<>>, result |-> <<>>, exc |-> "",
     printed |-> FALSE]

InitOver(T) ==
    /\ binDir \in {None, "/usr/bin", "/opt/treetagger/bin"}
    /\ args = NoArgs
    /\ self = [state |-> "new", _abbr_list |-> Unset, _encoding |-> Unset,
               _treetagger_bin |-> Unset]
    /\ binName = Unset
    /\ ctorExc = ""
    /\ lookups = <<>>
    /\ th = [t \in T |-> IdleThread]
    /\ procs = {}

(***************************************************************************)
(* TreeTagger.__init__                                                     *)
(***************************************************************************)
\* a validation that looks at the encoding alone
KnownPairEncodingOnly(language, encoding) ==
    encoding \in DOMAIN _treetagger_languages

\* a validation that looks the language up under the default encoding
KnownPairDefaultList(language, encoding) ==
    encoding \in DOMAIN _treetagger_languages
        /\ language \in _treetagger_languages["utf-8"]

\* line 104
KnownPair(language, encoding) ==
    encoding \in DOMAIN _treetagger_languages
        /\ language \in _treetagger_languages[encoding]

\* lines 97-114: store the abbreviation list, validate (encoding, language).
\* The test of line 104 cannot raise KeyError, so the handler of line 113
\* never runs.
Validate(a) ==
    /\ self.state = "new"
    /\ args' = a
    /\ IF KnownPair(a.language, a.encoding)
       THEN /\ self' = [self EXCEPT !.state = "validated",
                                    !._abbr_list = a.abbreviation_list,
                                    !._encoding =
                                        IF a.encoding = "latin-1"
                                        THEN "latin-1" ELSE a.encoding]
            /\ binName' = "tree-tagger-" \o a.language
            /\ ctorExc' = ""
       ELSE /\ self' = [self EXCEPT !.state = "failed",
                                    !._abbr_list = a.abbreviation_list]
            /\ binName' = binName
            /\ ctorExc' = "LookupError"
    /\ UNCHANGED <<binDir, lookups, th, procs>>

\* nltk's find_binary with the default path_to_home: the path of the binary
\* in a directory of the search path, or a LookupError
find_binary(name, searchpath) ==
    IF binDir \in searchpath
    THEN [exc |-> "", path |-> binDir \o "/" \o name]
    ELSE [exc |-> "LookupError", path |-> Unset]

\* lines 116-121
FindBinary ==
    /\ self.state = "validated"
    /\ lookups' = Append(lookups, binName)
    /\ LET r == find_binary(binName, treetagger_paths)
       IN  IF r.exc = ""
           THEN /\ self' = [self EXCEPT !.state = "ready",
                                        !._treetagger_bin = r.path]
                /\ ctorExc' = ""
           ELSE /\ self' = [self EXCEPT !.state = "failed"]
                /\ ctorExc' = r.exc
    /\ UNCHANGED <<binDir, args, binName, th, procs>>

(***************************************************************************)
(* The child process: the environment of tag().                            *)
(***************************************************************************)
\* the lines a line-reading child finds on its standard input
StdinLines(stdin) ==
    LET pieces == Split(stdin, NL)
    IN  IF pieces[Len(pieces)] = <<>>
        THEN SubSeq(pieces, 1, Len(pieces) - 1) ELSE pieces

\* a child that writes every input line back, newline-terminated
EchoChild(stdin) ==
    LET ls == StdinLines(stdin)
    IN  Concat([i \in 1..Len(ls) |-> ls[i] \o <<NL>>])

\* a child that writes <token> TAB XX TAB <token> for every input line
StubChild(stdin) ==
    LET ls == StdinLines(stdin)
    IN  Concat([i \in 1..Len(ls) |->
                   ls[i] \o <<TAB, 88, 88, TAB>> \o ls[i] \o <<NL>>])

\* a fresh process id
NewPid == CHOOSE n \in 1..(Cardinality(procs) + 1) : \A q \in procs : q.pid # n

(***************************************************************************)
(* TreeTagger.tag                                                          *)
(***************************************************************************)
\* lines 130-136: join a token list, encode text; [exc, v]
Prepare(sentences, encoding) ==
    LET joined ==
            IF sentences.kind = "list"
            THEN IF \A i \in 1..Len(sentences.items) :
                        sentences.items[i].kind = "str"
                 THEN [exc |-> "",
                       v |-> Str(Join([i \in 1..Len(sentences.items) |->
                                          sentences.items[i].v], NL))]
                 ELSE [exc |-> "TypeError", v |-> NoValue]
            ELSE [exc |-> "", v |-> sentences]
    IN  IF joined.exc # "" THEN joined
        ELSE IF joined.v.kind = "str" /\ Truthy(encoding)
        THEN LET e == Encode(joined.v.v, encoding)
             IN  IF e.ok THEN [exc |-> "", v |-> Bytes(e.v)]
                 ELSE [exc |-> "UnicodeEncodeError", v |-> NoValue]
        ELSE joined

\* a tag() that falls back to the default encoding and stores it
CallResetsEncoding(t, s) ==
    /\ self.state = "ready"
    /\ th[t].pc = "idle"
    /\ self' = [self EXCEPT !._encoding = "utf-8"]
    /\ LET r == Prepare(s, "utf-8")
       IN  th' = [th EXCEPT ![t] =
                    IF r.exc = ""
                    THEN [@ EXCEPT !.pc = "prepared", !.sentences = s, !._input = r.v]
                    ELSE [@ EXCEPT !.pc = "raised", !.sentences = s, !.exc = r.exc]]
    /\ UNCHANGED <<binDir, args, binName, ctorExc, lookups, procs>>

\* lines 127-136
Call(t, s) ==
    /\ self.state = "ready"
    /\ th[t].pc = "idle"
    /\ LET r == Prepare(s, self._encoding)
       IN  th' = [th EXCEPT ![t] =
                    IF r.exc = ""
                    THEN [@ EXCEPT !.pc = "prepared", !.sentences = s, !._input = r.v]
                    ELSE [@ EXCEPT !.pc = "raised", !.sentences = s, !.exc = r.exc]]
    /\ UNCHANGED <<binDir, args, self, binName, ctorExc, lookups, procs>>

\* an argument vector that always carries the -a flag
ArgvAlwaysFlag(bin, abbr_list) == <<bin, "-a", abbr_list>>

\* lines 139-144: the argument vector handed to Popen
Argv(bin, abbr_list) ==
    IF abbr_list = None THEN <<bin>> ELSE <<bin, "-a", abbr_list>>

\* lines 139-144: Popen(..., shell=False, stdin=PIPE, stdout=PIPE, stderr=PIPE)
Spawn(t) ==
    /\ th[t].pc = "prepared"
    /\ LET pid == NewPid
       IN  /\ procs' = procs \cup
                 {[pid |-> pid, owner |-> t, shell |-> FALSE,
                   argv |-> Argv(self._treetagger_bin, self._abbr_list),
                   stdin |-> NoValue]}
           /\ th' = [th EXCEPT ![t].pc = "spawned", ![t].p = pid,
                               ![t].nspawn = @ + 1]
    /\ UNCHANGED <<binDir, args, self, binName, ctorExc, lookups>>

\* line 146: p.communicate(_input); the child reads all of its input, writes
\* out and exits with rc
Communicate(t, out, rc) ==
    /\ th[t].pc = "spawned"
    /\ procs' = {IF q.pid = th[t].p THEN [q EXCEPT !.stdin = th[t]._input] ELSE q :
                    q \in procs}
    /\ th' = [th EXCEPT ![t].pc = "communicated", ![t].stdout = Bytes(out),
                        ![t].returncode = rc]
    /\ UNCHANGED <<binDir, args, self, binName, ctorExc, lookups>>

\* a check that misses a child killed by a signal (a negative return code)
ReturnCodePositive(rc) == rc > 0

\* line 149
ReturnCodeFailed(rc) == rc # 0

\* lines 153-156: [exc, v]
DecodeOutput(stdout, encoding) ==
    IF stdout.kind = "str" /\ Truthy(encoding)
    THEN [exc |-> "AttributeError", v |-> <<>>]
    ELSE tUoB3(stdout, "utf-8")

\* a parse that skips blank lines
ParseOutputSkipsBlank(treetagger_output) ==
    LET tagged_words == Split(Strip(treetagger_output), NL)
        kept == SelectSeq(tagged_words, LAMBDA w : w # <<>>)
    IN  [i \in 1..Len(kept) |-> Split(kept[i], TAB)]

\* lines 159-164
ParseOutput(treetagger_output) ==
    LET tagged_words == Split(Strip(treetagger_output), NL)
    IN  [i \in 1..Len(tagged_words) |-> Split(tagged_words[i], TAB)]

\* lines 149-164
Finish(t) ==
    /\ th[t].pc = "communicated"
    /\ th' = [th EXCEPT ![t] =
          IF ReturnCodeFailed(th[t].returncode)
          THEN [@ EXCEPT !.pc = "raised", !.exc = "OSError", !.printed = TRUE]
          ELSE LET d == DecodeOutput(th[t].stdout, self._encoding)
               IN  IF d.exc # ""
                   THEN [@ EXCEPT !.pc = "raised", !.exc = d.exc]
                   ELSE [@ EXCEPT !.pc = "returned", !.treetagger_output = d.v,
                                  !.result = ParseOutput(d.v)]]
    /\ UNCHANGED <<binDir, args, self, binName, ctorExc, lookups, procs>>

\* tag() has returned or raised: its locals, the Popen object among them, go
Return(t) ==
    /\ th[t].pc \in {"returned", "raised"}
    /\ th' = [th EXCEPT ![t] = IdleThread]
    /\ procs' = {q \in procs : q.owner # t}
    /\ UNCHANGED <<binDir, args, self, binName, ctorExc, lookups>>

(***************************************************************************)
(* Inputs.                                                                 *)
(***************************************************************************)
AbbrLists == {None, "abbreviations.txt"}

CtorArgs(languages, encodings) ==
    [language : languages, encoding : encodings, abbreviation_list : AbbrLists]

AllLanguages ==
    _treetagger_languages["latin-1"] \cup _treetagger_languages["utf-8"]
        \cup {"klingon"}

AllEncodings == {"utf-8", "latin-1", "ascii"}

\* tokens: empty, "a", e acute (one byte in latin-1, two in utf-8);
\* 1078, Cyrillic zhe, has no latin-1 encoding
Tokens == {<<>>, <<97>>, <<233>>}

TokenLists == {[i \in 1..Len(l) |-> Str(l[i])] : l \in SeqsUpTo(Tokens, MaxTokens)}

BytesTokenLists ==
    {[i \in 1..Len(l) |-> Bytes(l[i])] : l \in SeqsUpTo({<<97>>}, MaxTokens) \ {<<>>}}

Sentences ==
    {List(l) : l \in TokenLists \cup BytesTokenLists}
        \cup {Str(s) : s \in {<<>>, <<97>>, <<97, NL, 233>>, <<1078>>}}
        \cup {Bytes(b) : b \in {<<>>, <<97>>, <<233>>, <<97, NL, 97>>}}

\* what a child may write: any short text of tabs, newlines and "a", e acute
\* in latin-1 and in utf-8, or its input echoed
ChildOutputs(stdin) ==
    SeqsUpTo({TAB, NL, 97}, MaxOut) \cup {<<233>>, <<195, 169>>}
        \cup {EchoChild(stdin), StubChild(stdin)}

ReturnCodes == {0, 1, -9}

(***************************************************************************)
(* One caller, the full range of inputs and child outputs.                 *)
(***************************************************************************)
Init == InitOver({1})

Next ==
    \/ \E a \in CtorArgs({"latin", "german", "klingon"}, AllEncodings) : Validate(a)
    \/ FindBinary
    \/ \E t \in DOMAIN th : \E s \in Sentences : Call(t, s)
    \/ \E t \in DOMAIN th : Spawn(t)
    \/ \E t \in DOMAIN th :
          \E out \in ChildOutputs(th[t]._input.v), rc \in ReturnCodes :
             Communicate(t, out, rc)
    \/ \E t \in DOMAIN th : Finish(t)
    \/ \E t \in DOMAIN th : Return(t)

Spec == Init /\ [][Next]_vars

(***************************************************************************)
(* Two concurrent callers, every language, few inputs.                     *)
(***************************************************************************)
ConcSentences == {List(<<Str(<<97>>)>>), Str(<<1078>>), List(<<Bytes(<<97>>)>>)}

ConcOutputs(stdin) == {<<>>, EchoChild(stdin)}

InitConc == InitOver({1, 2})

NextConc ==
    \/ \E a \in CtorArgs(AllLanguages, AllEncodings) : Validate(a)
    \/ FindBinary
    \/ \E t \in DOMAIN th : \E s \in ConcSentences : Call(t, s)
    \/ \E t \in DOMAIN th : Spawn(t)
    \/ \E t \in DOMAIN th :
          \E out \in ConcOutputs(th[t]._input.v), rc \in {0, 1} :
             Communicate(t, out, rc)
    \/ \E t \in DOMAIN th : Finish(t)
    \/ \E t \in DOMAIN th : Return(t)

SpecConc == InitConc /\ [][NextConc]_vars

(***************************************************************************)
(* Properties.                                                             *)
(***************************************************************************)
Threads == DOMAIN th

\* the fixed language table lists language under encoding
InTable(language, encoding) ==
    \E e \in DOMAIN _treetagger_languages :
        e = encoding /\ language \in _treetagger_languages[e]

Constructing == args # NoArgs

\* tag() raised while joining or encoding its input
PreparationFailed(t) == th[t].pc = "raised" /\ th[t]._input.kind = "none"

\* C1: a (language, encoding) pair that is not in the language table makes
\* construction fail with a LookupError, with or without a binary installed,
\* before find_binary is asked for anything and before any child is spawned.
C1_UnknownPairFailsEarly ==
    (Constructing /\ ~InTable(args.language, args.encoding)) =>
        /\ self.state = "failed"
        /\ ctorExc = "LookupError"
        /\ lookups = <<>>
        /\ procs = {}
        /\ \A t \in Threads : th[t].pc = "idle" /\ th[t].nspawn = 0

C1_Witness ==
    /\ args.language = "klingon"
    /\ args.encoding = "utf-8"
    /\ binDir = "/usr/bin"
    /\ self.state = "failed"

\* C9: a pair of the language table passes validation, its encoding becomes
\* the adapter's encoding, the binary looked up is 'tree-tagger-' + language,
\* and construction succeeds when that binary is on the search path.
C9_KnownPairConstructs ==
    (Constructing /\ InTable(args.language, args.encoding)) =>
        /\ self._encoding = args.encoding
        /\ binName = "tree-tagger-" \o args.language
        /\ \/ self.state = "validated" /\ lookups = <<>>
           \/ /\ self.state \in {"ready", "failed"}
              /\ lookups = <<"tree-tagger-" \o args.language>>
              /\ binDir \in treetagger_paths =>
                    /\ self.state = "ready"
                    /\ ctorExc = ""
                    /\ self._treetagger_bin =
                           binDir \o "/tree-tagger-" \o args.language

C9_Witness ==
    /\ args.language = "swahili"
    /\ args.encoding = "latin-1"
    /\ self.state = "ready"

\* the records of a call that returned are all the lines of its output
FullRecordList(t) ==
    LET text == Strip(th[t].treetagger_output)
    IN  Len(th[t].result) = 1 + Cardinality({i \in 1..Len(text) : text[i] = NL})

\* C4: a child that exits with a non-zero status makes tag() raise OSError
\* and hand back no records, whatever the child wrote; a call that has ended
\* either returned all its records or raised and returned none.
C4_NonZeroExitRaises ==
    \A t \in Threads :
        /\ (th[t].pc \in {"returned", "raised"} /\ th[t].returncode # 0) =>
              /\ th[t].pc = "raised"
              /\ th[t].exc = "OSError"
              /\ th[t].result = <<>>
        /\ th[t].pc = "raised" => (th[t].exc # "" /\ th[t].result = <<>>)
        /\ th[t].pc = "returned" =>
              (th[t].exc = "" /\ th[t].returncode = 0 /\ FullRecordList(t))

C4_Witness ==
    \E t \in Threads :
        /\ th[t].pc = "raised"
        /\ th[t].returncode = -9
        /\ th[t].stdout.v = <<97, TAB, 97>>

\* the child process of the call thread t is in
OwnChildren(t) == {q \in procs : q.owner = t}

ExpectedArgv ==
    LET bin == binDir \o "/tree-tagger-" \o args.language
    IN  IF args.abbreviation_list = None THEN <<bin>>
        ELSE <<bin, "-a", args.abbreviation_list>>

OneChildWithArgv(t) ==
    /\ th[t].nspawn = 1
    /\ Cardinality(OwnChildren(t)) = 1
    /\ \A q \in OwnChildren(t) : q.shell = FALSE /\ q.argv = ExpectedArgv

TextInput(v) ==
    \/ v.kind = "str"
    \/ v.kind = "list" /\ \A i \in 1..Len(v.items) : v.items[i].kind = "str"

\* C7 as stated, for calls whose input is text: every call to tag() that has
\* ended has spawned exactly one child, without a shell, with the argument
\* vector [binary] or [binary, "-a", abbreviation list].
C7_EveryCallSpawnsOne ==
    \A t \in Threads :
        (th[t].pc \in {"returned", "raised"} /\ TextInput(th[t].sentences)) =>
            OneChildWithArgv(t)

\* C7 amended: a call that got past joining and encoding its input has
\* spawned exactly one child, without a shell, with the argument vector
\* [binary] when no abbreviation list was configured and
\* [binary, "-a", abbreviation list] when one was; a call that has not got
\* there, or raised there, has spawned none.
C7_PreparedCallSpawnsOne ==
    \A t \in Threads :
        IF th[t].pc \in {"idle", "prepared"} \/ PreparationFailed(t)
        THEN th[t].nspawn = 0 /\ OwnChildren(t) = {}
        ELSE OneChildWithArgv(t)

C7_Witness ==
    \E t \in Threads :
        /\ th[t].pc = "returned"
        /\ args.abbreviation_list = "abbreviations.txt"
        /\ OneChildWithArgv(t)

IsBlank(text) == \A i \in 1..Len(text) : text[i] \in PyWhitespace

\* C10: a call that returns returns at least one record; when the child's
\* output is empty or all whitespace, an empty token list included, the
\* result is the one record [''].
C10_ResultNeverEmpty ==
    \A t \in Threads :
        th[t].pc = "returned" =>
            /\ Len(th[t].result) >= 1
            /\ IsBlank(th[t].treetagger_output) => th[t].result = << << <<>> >> >>

C10_Witness ==
    \E t \in Threads :
        /\ th[t].pc = "returned"
        /\ th[t].sentences.kind = "list"
        /\ Len(th[t].sentences.items) = 0
        /\ th[t].stdout.v = <<>>
        /\ th[t].result = << << <<>> >> >>

\* the call of thread t was given a list of text tokens
TokenListCall(t) ==
    th[t].sentences.kind = "list"
        /\ \A i \in 1..Len(th[t].sentences.items) :
              th[t].sentences.items[i].kind = "str"

\* the child of thread t's call exited 0 having written one line for each
\* of the N lines it read
EchoedLineByLine(t) ==
    /\ th[t].stdout.kind = "bytes"
    /\ th[t].returncode = 0
    /\ Len(StdinLines(th[t]._input.v)) = Len(th[t].sentences.items)
    /\ th[t].stdout.v = EchoChild(th[t]._input.v)

\* C2: tag() of a list of N newline-free tokens, with a child that exits 0
\* and echoes one output line per input line, returns N records, record i
\* being token i.
C2_RoundTrip ==
    \A t \in Threads :
        (/\ th[t].pc \in {"returned", "raised"}
         /\ TokenListCall(t)
         /\ EchoedLineByLine(t)) =>
            /\ th[t].pc = "returned"
            /\ Len(th[t].result) = Len(th[t].sentences.items)
            /\ \A i \in 1..Len(th[t].sentences.items) :
                  th[t].result[i] = <<th[t].sentences.items[i].v>>

\* text without one trailing newline
TrimOneNewline(text) ==
    IF text # <<>> /\ text[Len(text)] = NL
    THEN SubSeq(text, 1, Len(text) - 1) ELSE text

\* C3: the records of a successful call are the lines of the decoded output,
\* less a single trailing newline, each split on tabs: record i has as many
\* fields as line i has tab-separated fields, empty ones included.
C3_FieldsKept ==
    \A t \in Threads :
        th[t].pc = "returned" =>
            LET rawLines == Split(TrimOneNewline(th[t].treetagger_output), NL)
            IN  /\ Len(th[t].result) = Len(rawLines)
                /\ \A i \in 1..Len(rawLines) :
                      th[t].result[i] = Split(rawLines[i], TAB)

\* C5: the child's standard output is decoded with the adapter's encoding.
C5_DecodedWithAdapterEncoding ==
    \A t \in Threads :
        LET d == Decode(th[t].stdout.v, args.encoding)
        IN  /\ th[t].pc = "returned" =>
                  (d.ok /\ th[t].treetagger_output = d.v)
            /\ (th[t].pc = "raised" /\ th[t].exc = "UnicodeDecodeError") => ~d.ok

\* the bytes the claim has tag() write for input v: text encoded, raw data
\* as it is, tokens joined with newlines; defined is FALSE where the claim
\* says nothing (text with no encoding, tokens of both kinds)
ExpectedStdin(v, encoding) ==
    LET n == Len(v.items)
        text == IF v.kind = "list"
                THEN Join([i \in 1..n |-> v.items[i].v], NL) ELSE v.v
    IN  IF v.kind = "bytes" \/ (v.kind = "list" /\ n > 0
                                  /\ \A i \in 1..n : v.items[i].kind = "bytes")
        THEN [defined |-> TRUE, v |-> text]
        ELSE IF TextInput(v)
        THEN [defined |-> Encode(text, encoding).ok, v |-> Encode(text, encoding).v]
        ELSE [defined |-> FALSE, v |-> <<>>]

\* C8: what tag() writes to the child's standard input is its input, text
\* encoded in the adapter's encoding and raw data unchanged, for a single
\* input and for a sequence of tokens alike.
C8_StdinBytes ==
    \A t \in Threads :
        LET e == ExpectedStdin(th[t].sentences, args.encoding)
        IN  (th[t].pc # "idle" /\ e.defined) =>
                /\ th[t]._input.kind = "bytes"
                /\ th[t]._input.v = e.v
                /\ \A q \in OwnChildren(t) :
                      q.stdin.kind = "bytes" => q.stdin.v = e.v

=============================================================================
